---- MODULE Spec2Model ----
(***************************************************************************)
(* psqlpack: the Package model (psqlpack/src/model/package.rs).  A Package *)
(* holds six entity collections and an optional build order.  Entities are *)
(* pushed, default schemas are applied by set_defaults, and                *)
(* generate_dependency_graph builds a weighted dependency graph, validates *)
(* it and stores its topological order.                                    *)
(*                                                                         *)
(* Strings are sequences of one-character strings, so that formatting      *)
(* ("{}.{}"), ASCII case folding and lexicographic comparison are computed *)
(* character by character.                                                 *)
(***************************************************************************)
EXTENDS Integers, Sequences, FiniteSets, TLC

VARIABLES extensions, functions, schemas, scripts, tables, types, order,
          project, hist, result,
          archive, loaded, asm, deploy

vars == <<extensions, functions, schemas, scripts, tables, types, order,
          project, hist, result, archive, loaded, asm, deploy>>

\* Longest sequence of Package method calls explored.
MaxOps == 4

----------------------------------------------------------------------------
\* Option<T>

None == [some |-> FALSE, val |-> <<>>]

Some(v) == [some |-> TRUE, val |-> v]

----------------------------------------------------------------------------
\* Strings

\* The characters used by the inputs, in ASCII order.
Alphabet == <<".", "B", "C", "I", "L", "P", "U",
              "a", "b", "c", "d", "e", "f", "i", "k", "l", "p", "s", "t", "u">>

RECURSIVE IndexIn(_, _, _)
IndexIn(c, seq, i) ==
    IF i > Len(seq) THEN 0
    ELSE IF seq[i] = c THEN i ELSE IndexIn(c, seq, i + 1)

\* Position of a character in ASCII order.
CharCode(c) == IndexIn(c, Alphabet, 1)

\* u8::to_ascii_lowercase: upper-case letters map to lower case, every other
\* byte is unchanged.
AsciiLowerChar(c) ==
    CASE c = "B" -> "b"
      [] c = "C" -> "c"
      [] c = "I" -> "i"
      [] c = "L" -> "l"
      [] c = "P" -> "p"
      [] c = "U" -> "u"
      [] OTHER -> c

\* A case-sensitive comparison.
eq_case_sensitive(s, t) == s = t

\* str::eq_ignore_ascii_case
eq_ignore_ascii_case(s, t) ==
    /\ Len(s) = Len(t)
    /\ \A i \in 1..Len(s) : AsciiLowerChar(s[i]) = AsciiLowerChar(t[i])

RECURSIVE StrLessFrom(_, _, _)
StrLessFrom(s, t, i) ==
    IF i > Len(s) THEN i <= Len(t)
    ELSE IF i > Len(t) THEN FALSE
    ELSE IF s[i] = t[i] THEN StrLessFrom(s, t, i + 1)
    ELSE CharCode(s[i]) < CharCode(t[i])

\* Lexicographic (byte-wise) order on strings.
StrLess(s, t) == StrLessFrom(s, t, 1)

\* format!("{}.{}", a, b)
DotJoin(a, b) == a \o <<".">> \o b

public == <<"p", "u", "b", "l", "i", "c">>

----------------------------------------------------------------------------
\* AST values

ObjectName(schema, name) == [schema |-> schema, name |-> name]

\* ObjectName::to_string: "schema.name", or "name" when the schema is absent.
ObjectNameToString(n) ==
    IF n.schema.some THEN DotJoin(n.schema.val, n.name) ELSE n.name

Primary(name, columns) ==
    [kind |-> "Primary", name |-> name, columns |-> columns]

Foreign(name, columns, ref_table, ref_columns) ==
    [kind |-> "Foreign", name |-> name, columns |-> columns,
     ref_table |-> ref_table, ref_columns |-> ref_columns]

TableDefinition(name, columns, constraints) ==
    [name |-> name, columns |-> columns, constraints |-> constraints]

FunctionDefinition(name) == [name |-> name]

TypeDefinition(name) == [name |-> name]

SchemaDefinition(name) == [name |-> name]

ExtensionDefinition(name) == [name |-> name]

ScriptDefinition(name) == [name |-> name]

----------------------------------------------------------------------------
\* Inputs

app == <<"a", "p", "p">>

PUBLIC == <<"P", "U", "B", "L", "I", "C">>

\* Project.default_schema values.
DefaultSchemas == {app, public}

TableInputs ==
    { TableDefinition(ObjectName(None, <<"a">>), <<<<"c">>>>, None),
      TableDefinition(ObjectName(None, <<"b">>), <<<<"c">>>>, None),
      TableDefinition(ObjectName(None, <<"a">>), <<<<"c">>>>,
          Some(<<Foreign(<<"k">>, <<<<"c">>>>,
                         ObjectName(None, <<"b">>), <<<<"c">>>>)>>)),
      TableDefinition(ObjectName(None, <<"b">>), <<<<"c">>>>,
          Some(<<Foreign(<<"k">>, <<<<"c">>>>,
                         ObjectName(None, <<"a">>), <<<<"c">>>>)>>)),
      TableDefinition(ObjectName(Some(app), <<"b">>), <<<<"c">>, <<"d">>>>,
          Some(<<Primary(<<"p">>, <<<<"c">>>>)>>)),
      TableDefinition(ObjectName(Some(public), <<"a">>), <<<<"d">>>>,
          Some(<<>>)) }

FunctionInputs ==
    { FunctionDefinition(ObjectName(None, <<"f">>)),
      FunctionDefinition(ObjectName(Some(app), <<"f">>)) }

TypeInputs == { TypeDefinition(ObjectName(None, <<"t">>)) }

SchemaInputs == { SchemaDefinition(PUBLIC), SchemaDefinition(app) }

ExtensionInputs == { ExtensionDefinition(<<"e">>) }

ScriptInputs == { ScriptDefinition(<<"s">>) }

----------------------------------------------------------------------------
\* Dependency graph

\* Edge weights, in tenths: 1.0 and 1.1.
WeightOne == 10

WeightForeignRef == 11

Node(kind, name) == [kind |-> kind, name |-> name]

Edge(from, to, weight) == [from |-> from, to |-> to, weight |-> weight]

\* DependencyGraph::new
EmptyGraph == [nodes |-> {}, edges |-> {}]

\* The union of two graphs: add_node and add_edge accumulate.
GraphUnion(g, h) ==
    [nodes |-> g.nodes \cup h.nodes, edges |-> g.edges \cup h.edges]

SeqToSet(seq) == { seq[i] : i \in 1..Len(seq) }

\* ColumnDefinition::generate_dependencies: the node of a column of table
\* `parent`.
ColumnNode(parent, column) == Node("Column", DotJoin(parent, column))

\* TableConstraint::generate_dependencies: the constraint node, an edge of
\* weight 1.0 to each local column and, for Foreign, an edge of weight 1.1 to
\* each referenced column.
ConstraintNode(parent, c) == Node("Constraint", DotJoin(parent, c.name))

\* Every edge of a constraint given the weight 1.0.
ConstraintDependenciesUniformWeight(parent, c) ==
    LET node == Node("Constraint", DotJoin(parent, c.name))
        cols == SeqToSet(c.columns)
        refs == IF c.kind = "Foreign" THEN SeqToSet(c.ref_columns) ELSE {}
    IN [nodes |-> {node},
        edges |-> { Edge(node, Node("Column", DotJoin(parent, col)),
                         WeightOne) : col \in cols }
                    \cup { Edge(node,
                                Node("Column",
                                     DotJoin(ObjectNameToString(c.ref_table),
                                             col)),
                                WeightOne) : col \in refs }]

ConstraintDependencies(parent, c) ==
    LET node == ConstraintNode(parent, c)
        local == { Edge(node, ColumnNode(parent, col), WeightOne) :
                     col \in SeqToSet(c.columns) }
        refs == IF c.kind = "Foreign"
                THEN { Edge(node,
                            ColumnNode(ObjectNameToString(c.ref_table), col),
                            WeightForeignRef) :
                         col \in SeqToSet(c.ref_columns) }
                ELSE {}
    IN [nodes |-> {node}, edges |-> local \cup refs]

\* TableDefinition::generate_dependencies: the table node, one node per
\* column with an edge column -> table, and each constraint's dependencies
\* with an edge constraint -> table.
TableDependencies(t) ==
    LET full_name == ObjectNameToString(t.name)
        table_node == Node("Table", full_name)
        cols == SeqToSet(t.columns)
        cons == IF t.constraints.some THEN SeqToSet(t.constraints.val) ELSE {}
    IN [nodes |-> {table_node}
                    \cup { ColumnNode(full_name, col) : col \in cols }
                    \cup { ConstraintNode(full_name, c) : c \in cons },
        edges |-> { Edge(ColumnNode(full_name, col), table_node, WeightOne) :
                      col \in cols }
                    \cup UNION { ConstraintDependencies(full_name, c).edges :
                                   c \in cons }
                    \cup { Edge(ConstraintNode(full_name, c), table_node,
                                WeightOne) : c \in cons }]

\* FunctionDefinition::generate_dependencies: the function node only.
FunctionDependencies(f) ==
    [nodes |-> {Node("Function", ObjectNameToString(f.name))}, edges |-> {}]

\* The graph generate_dependency_graph builds: the tables, then the
\* functions.
RECURSIVE AddAll(_, _, _)
AddAll(g, deps, i) ==
    IF i > Len(deps) THEN g
    ELSE AddAll(GraphUnion(g, deps[i]), deps, i + 1)

BuildGraph(ts, fs) ==
    LET withTables ==
            AddAll(EmptyGraph,
                   [i \in 1..Len(ts) |-> TableDependencies(ts[i])], 1)
    IN AddAll(withTables,
              [i \in 1..Len(fs) |-> FunctionDependencies(fs[i])], 1)

\* Edges whose destination node was never added.
UnresolvedEdges(g) == { e \in g.edges : e.to \notin g.nodes }

Successors(g, n) == { e.to : e \in { x \in g.edges : x.from = n } }

\* Depth-first search from n with the nodes in `gray` on the stack: is an
\* edge to a gray node found?
RECURSIVE BackEdgeFrom(_, _, _)
BackEdgeFrom(g, n, gray) ==
    \E m \in Successors(g, n) :
        \/ m \in gray
        \/ BackEdgeFrom(g, m, gray \cup {m})

HasBackEdge(g) == \E n \in g.nodes : BackEdgeFrom(g, n, {n})

\* DependencyGraph::validate
ValidateGraph(g) ==
    IF HasBackEdge(g) THEN "CircularReference"
    ELSE IF UnresolvedEdges(g) # {} THEN "UnresolvedDependencies"
    ELSE "Valid"

KindOrder == <<"Schema", "Extension", "Type", "Table", "Column",
               "Constraint", "Function">>

KindRank(k) == IndexIn(k, KindOrder, 1)

\* Lexicographic order on Node identity: the variant, then the name.
NodeLess(a, b) ==
    \/ KindRank(a.kind) < KindRank(b.kind)
    \/ a.kind = b.kind /\ StrLess(a.name, b.name)

RECURSIVE SumWeights(_)
SumWeights(es) ==
    IF es = {} THEN 0
    ELSE LET e == CHOOSE x \in es : TRUE
         IN e.weight + SumWeights(es \ {e})

\* The weight of the edges of n, all of them to nodes already placed when n
\* is a candidate.
CommittedWeight(g, n) == SumWeights({ e \in g.edges : e.from = n })

\* The nodes not yet placed none of whose dependencies is outstanding.
Candidates(g, placed) ==
    { n \in g.nodes \ SeqToSet(placed) :
        \A e \in g.edges : e.from = n => e.to \in SeqToSet(placed) }

\* The tie-break among candidates: ascending committed weight, then Node
\* identity.
Before(g, a, b) ==
    \/ CommittedWeight(g, a) < CommittedWeight(g, b)
    \/ CommittedWeight(g, a) = CommittedWeight(g, b) /\ NodeLess(a, b)

RECURSIVE Kahn(_, _)
Kahn(g, placed) ==
    LET cand == Candidates(g, placed)
    IN IF cand = {} THEN placed
       ELSE LET n == CHOOSE x \in cand :
                        \A y \in cand \ {x} : Before(g, x, y)
            IN Kahn(g, Append(placed, n))

\* DependencyGraph::topological_sort
topological_sort(g) == Kahn(g, <<>>)

----------------------------------------------------------------------------
\* Package

Ok == [ok |-> TRUE, err |-> "", msg |-> ""]

GenerationError(msg) == [ok |-> FALSE, err |-> "GenerationError", msg |-> msg]

CanCall == Len(hist) < MaxOps

\* A run of gen.rs that has not begun.
NotStarted == [pc |-> "idle"]

\* Package::new
Init ==
    /\ extensions = <<>>
    /\ functions = <<>>
    /\ schemas = <<>>
    /\ scripts = <<>>
    /\ tables = <<>>
    /\ types = <<>>
    /\ order = None
    /\ project \in [default_schema : DefaultSchemas]
    /\ hist = <<>>
    /\ result = Ok
    /\ archive = None
    /\ loaded = None
    /\ asm = NotStarted
    /\ deploy = NotStarted

push_extension ==
    /\ CanCall
    /\ \E extension \in ExtensionInputs :
          extensions' = Append(extensions, extension)
    /\ hist' = Append(hist, "push_extension")
    /\ result' = Ok
    /\ UNCHANGED <<functions, schemas, scripts, tables, types, order, project>>
    /\ UNCHANGED <<archive, loaded, asm, deploy>>

push_function ==
    /\ CanCall
    /\ \E function \in FunctionInputs :
          functions' = Append(functions, function)
    /\ hist' = Append(hist, "push_function")
    /\ result' = Ok
    /\ UNCHANGED <<extensions, schemas, scripts, tables, types, order, project>>
    /\ UNCHANGED <<archive, loaded, asm, deploy>>

push_script ==
    /\ CanCall
    /\ \E script \in ScriptInputs :
          scripts' = Append(scripts, script)
    /\ hist' = Append(hist, "push_script")
    /\ result' = Ok
    /\ UNCHANGED <<extensions, functions, schemas, tables, types, order, project>>
    /\ UNCHANGED <<archive, loaded, asm, deploy>>

push_schema ==
    /\ CanCall
    /\ \E schema \in SchemaInputs :
          schemas' = Append(schemas, schema)
    /\ hist' = Append(hist, "push_schema")
    /\ result' = Ok
    /\ UNCHANGED <<extensions, functions, scripts, tables, types, order, project>>
    /\ UNCHANGED <<archive, loaded, asm, deploy>>

push_table ==
    /\ CanCall
    /\ \E table \in TableInputs :
          tables' = Append(tables, table)
    /\ hist' = Append(hist, "push_table")
    /\ result' = Ok
    /\ UNCHANGED <<extensions, functions, schemas, scripts, types, order, project>>
    /\ UNCHANGED <<archive, loaded, asm, deploy>>

push_type ==
    /\ CanCall
    /\ \E def \in TypeInputs :
          types' = Append(types, def)
    /\ hist' = Append(hist, "push_type")
    /\ result' = Ok
    /\ UNCHANGED <<extensions, functions, schemas, scripts, tables, order, project>>
    /\ UNCHANGED <<archive, loaded, asm, deploy>>

\* The schema scan of set_defaults: is some schema named "public" in any
\* letter case?
HasPublic(ss) ==
    \E i \in 1..Len(ss) : eq_ignore_ascii_case(public, ss[i].name)

\* The test inverted: "public" appended when one is already there.
SchemasWithPublicInverted(ss) ==
    IF HasPublic(ss) THEN Append(ss, SchemaDefinition(public)) ELSE ss

\* The schemas after set_defaults.
SchemasWithPublic(ss) ==
    IF HasPublic(ss) THEN ss ELSE Append(ss, SchemaDefinition(public))

\* The default schema applied to every name, qualified or not.
DefaultNameOverwriting(n, default_schema) ==
    ObjectName(Some(default_schema), n.name)

\* An ObjectName after set_defaults: an absent schema becomes the default.
DefaultName(n, default_schema) ==
    IF n.schema.some THEN n ELSE ObjectName(Some(default_schema), n.name)

\* A table constraint after set_defaults: only Foreign.ref_table changes.
DefaultConstraint(c, default_schema) ==
    IF c.kind = "Foreign"
    THEN [c EXCEPT !.ref_table = DefaultName(c.ref_table, default_schema)]
    ELSE c

\* A table after set_defaults.
DefaultTable(t, default_schema) ==
    [t EXCEPT
       !.name = DefaultName(t.name, default_schema),
       !.constraints =
          IF t.constraints.some
          THEN Some([i \in 1..Len(t.constraints.val) |->
                       DefaultConstraint(t.constraints.val[i], default_schema)])
          ELSE t.constraints]

set_defaults ==
    /\ CanCall
    /\ schemas' = SchemasWithPublic(schemas)
    /\ tables' = [i \in 1..Len(tables) |->
                    DefaultTable(tables[i], project.default_schema)]
    /\ hist' = Append(hist, "set_defaults")
    /\ result' = Ok
    /\ UNCHANGED <<extensions, functions, scripts, types, order, project>>
    /\ UNCHANGED <<archive, loaded, asm, deploy>>

\* Package::validate is a stub that accepts every Package.
validate ==
    /\ CanCall
    /\ hist' = Append(hist, "validate")
    /\ result' = Ok
    /\ UNCHANGED <<extensions, functions, schemas, scripts, tables, types,
                   order, project>>
    /\ UNCHANGED <<archive, loaded, asm, deploy>>

\* Unresolved dependencies let through as if the graph were valid.
ValidationOutcomeIgnoringUnresolved(v) ==
    CASE v = "Valid" -> Ok
      [] v = "CircularReference" ->
            GenerationError("Circular reference detected")
      [] v = "UnresolvedDependencies" -> Ok

\* The match on the validation result in generate_dependency_graph.
ValidationOutcome(v) ==
    CASE v = "Valid" -> Ok
      [] v = "CircularReference" ->
            GenerationError("Circular reference detected")
      [] v = "UnresolvedDependencies" ->
            GenerationError("Unresolved dependencies detected")

\* The order reversed: dependents before their dependencies.
NewOrderReversed(r, graph, old) ==
    IF r.ok
    THEN LET sorted == topological_sort(graph)
         IN Some([i \in 1..Len(sorted) |-> sorted[Len(sorted) + 1 - i]])
    ELSE old

\* The order cleared when the graph is rejected.
NewOrderClearedOnError(r, graph, old) ==
    IF r.ok THEN Some(topological_sort(graph)) ELSE None

\* Package.order after generate_dependency_graph: replaced by the sorted
\* graph on success; on failure the method returns before the assignment.
NewOrder(r, graph, old) ==
    IF r.ok THEN Some(topological_sort(graph)) ELSE old

generate_dependency_graph ==
    /\ CanCall
    /\ LET graph == BuildGraph(tables, functions)
           r == ValidationOutcome(ValidateGraph(graph))
       IN /\ result' = r
          /\ order' = NewOrder(r, graph, order)
    /\ hist' = Append(hist, "generate_dependency_graph")
    /\ UNCHANGED <<extensions, functions, schemas, scripts, tables, types,
                   project>>
    /\ UNCHANGED <<archive, loaded, asm, deploy>>

Next ==
    \/ push_table
    \/ push_function
    \/ push_type
    \/ push_schema
    \/ push_extension
    \/ push_script
    \/ set_defaults
    \/ validate
    \/ generate_dependency_graph

Spec == Init /\ [][Next]_vars

----------------------------------------------------------------------------
\* Package artifact: JSON documents

JNull == [j |-> "null"]

JString(str) == [j |-> "string", v |-> str]

JArray(seq) == [j |-> "array", v |-> seq]

JObject(fields) == [j |-> "object", v |-> fields]

\* Serialize for Option<String>, ObjectName, Vec<String>.
SerObjectName(n) ==
    JObject([schema |-> IF n.schema.some THEN JString(n.schema.val) ELSE JNull,
             name |-> JString(n.name)])

SerStrings(seq) == JArray([i \in 1..Len(seq) |-> JString(seq[i])])

\* Serialize for TableConstraint: an enum, written as { variant: fields }.
SerConstraint(c) ==
    IF c.kind = "Foreign"
    THEN JObject("Foreign" :>
             JObject([name |-> JString(c.name),
                      columns |-> SerStrings(c.columns),
                      ref_table |-> SerObjectName(c.ref_table),
                      ref_columns |-> SerStrings(c.ref_columns)]))
    ELSE JObject("Primary" :>
             JObject([name |-> JString(c.name),
                      columns |-> SerStrings(c.columns)]))

\* Serialize for TableDefinition.
SerTable(t) ==
    JObject([name |-> SerObjectName(t.name),
             columns |-> JArray([i \in 1..Len(t.columns) |->
                                   JObject([name |-> JString(t.columns[i])])]),
             constraints |->
                 IF t.constraints.some
                 THEN JArray([i \in 1..Len(t.constraints.val) |->
                                SerConstraint(t.constraints.val[i])])
                 ELSE JNull])

\* Serialize for FunctionDefinition and TypeDefinition.
SerQualified(d) == JObject([name |-> SerObjectName(d.name)])

\* Serialize for SchemaDefinition, ExtensionDefinition and ScriptDefinition.
SerNamed(d) == JObject([name |-> JString(d.name)])

\* Serialize for Node: an enum, written as { variant: name }.
SerNode(n) == JObject(n.kind :> JString(n.name))

SerOrder(o) == JArray([i \in 1..Len(o) |-> SerNode(o[i])])

IsObject(d, fields) == d.j = "object" /\ fields \subseteq DOMAIN d.v

IsStrings(d) ==
    d.j = "array" /\ \A i \in 1..Len(d.v) : d.v[i].j = "string"

DeStrings(d) == [i \in 1..Len(d.v) |-> d.v[i].v]

IsObjectName(d) ==
    /\ IsObject(d, {"name"})
    /\ d.v.name.j = "string"
    /\ "schema" \in DOMAIN d.v => d.v.schema.j \in {"null", "string"}

DeObjectName(d) ==
    ObjectName(IF "schema" \in DOMAIN d.v /\ d.v.schema.j = "string"
               THEN Some(d.v.schema.v) ELSE None,
               d.v.name.v)

IsConstraint(d) ==
    /\ d.j = "object"
    /\ \/ /\ DOMAIN d.v = {"Primary"}
          /\ IsObject(d.v["Primary"], {"name", "columns"})
          /\ d.v["Primary"].v.name.j = "string"
          /\ IsStrings(d.v["Primary"].v.columns)
       \/ /\ DOMAIN d.v = {"Foreign"}
          /\ IsObject(d.v["Foreign"],
                      {"name", "columns", "ref_table", "ref_columns"})
          /\ d.v["Foreign"].v.name.j = "string"
          /\ IsStrings(d.v["Foreign"].v.columns)
          /\ IsObjectName(d.v["Foreign"].v.ref_table)
          /\ IsStrings(d.v["Foreign"].v.ref_columns)

DeConstraint(d) ==
    IF DOMAIN d.v = {"Foreign"}
    THEN LET f == d.v["Foreign"].v
         IN Foreign(f.name.v, DeStrings(f.columns),
                    DeObjectName(f.ref_table), DeStrings(f.ref_columns))
    ELSE LET f == d.v["Primary"].v
         IN Primary(f.name.v, DeStrings(f.columns))

\* Deserialize for TableDefinition.
DeTable(d) ==
    IF /\ IsObject(d, {"name", "columns"})
       /\ IsObjectName(d.v.name)
       /\ d.v.columns.j = "array"
       /\ \A i \in 1..Len(d.v.columns.v) :
             /\ IsObject(d.v.columns.v[i], {"name"})
             /\ d.v.columns.v[i].v.name.j = "string"
       /\ "constraints" \in DOMAIN d.v =>
             \/ d.v.constraints.j = "null"
             \/ /\ d.v.constraints.j = "array"
                /\ \A i \in 1..Len(d.v.constraints.v) :
                      IsConstraint(d.v.constraints.v[i])
    THEN Some(TableDefinition(
             DeObjectName(d.v.name),
             [i \in 1..Len(d.v.columns.v) |-> d.v.columns.v[i].v.name.v],
             IF "constraints" \in DOMAIN d.v /\ d.v.constraints.j = "array"
             THEN Some([i \in 1..Len(d.v.constraints.v) |->
                          DeConstraint(d.v.constraints.v[i])])
             ELSE None))
    ELSE None

\* Deserialize for FunctionDefinition and TypeDefinition.
DeQualified(d) ==
    IF IsObject(d, {"name"}) /\ IsObjectName(d.v.name)
    THEN Some([name |-> DeObjectName(d.v.name)])
    ELSE None

\* Deserialize for SchemaDefinition, ExtensionDefinition and
\* ScriptDefinition.
DeNamed(d) ==
    IF IsObject(d, {"name"}) /\ d.v.name.j = "string"
    THEN Some([name |-> d.v.name.v])
    ELSE None

NodeKinds == {"Schema", "Extension", "Type", "Table", "Column", "Constraint",
              "Function"}

IsNode(d) ==
    /\ d.j = "object"
    /\ \E k \in NodeKinds : DOMAIN d.v = {k} /\ d.v[k].j = "string"

DeNode(d) ==
    LET k == CHOOSE x \in DOMAIN d.v : TRUE IN Node(k, d.v[k].v)

\* Deserialize for Vec<Node>.
DeOrder(d) ==
    IF d.j = "array" /\ \A i \in 1..Len(d.v) : IsNode(d.v[i])
    THEN Some([i \in 1..Len(d.v) |-> DeNode(d.v[i])])
    ELSE None

----------------------------------------------------------------------------
\* Package artifact: the archive

\* The content of an archive entry: no bytes, the text of a JSON document,
\* or bytes that are not JSON.
EmptyBody == [kind |-> "empty"]

JsonBody(doc) == [kind |-> "json", doc |-> doc]

GarbageBody == [kind |-> "garbage"]

ZipEntry(name, body) == [name |-> name, body |-> body]

\* The collection directories, in the order write_to archives them.
CollectionNames == <<"extensions", "functions", "schemas", "scripts",
                     "tables", "types">>

\* stringify!($collection)
CollectionText(c) ==
    CASE c = "extensions" -> <<"e", "x", "t", "e", "n", "s", "i", "o", "n", "s">>
      [] c = "functions" -> <<"f", "u", "n", "c", "t", "i", "o", "n", "s">>
      [] c = "schemas" -> <<"s", "c", "h", "e", "m", "a", "s">>
      [] c = "scripts" -> <<"s", "c", "r", "i", "p", "t", "s">>
      [] c = "tables" -> <<"t", "a", "b", "l", "e", "s">>
      [] c = "types" -> <<"t", "y", "p", "e", "s">>

\* format!("{}/", collection_name)
DirectoryName(c) == CollectionText(c) \o <<"/">>

\* format!("{}/{}.json", collection_name, item.name)
FileName(c, itemName) ==
    CollectionText(c) \o <<"/">> \o itemName \o <<".", "j", "s", "o", "n">>

OrderFileName == <<"o", "r", "d", "e", "r", ".", "j", "s", "o", "n">>

\* str::starts_with
starts_with(str, prefix) ==
    Len(str) >= Len(prefix) /\ SubSeq(str, 1, Len(prefix)) = prefix

\* The Package as a value.
PackageOf(e, f, sc, scr, t, ty, o) ==
    [extensions |-> e, functions |-> f, schemas |-> sc, scripts |-> scr,
     tables |-> t, types |-> ty, order |-> o]

\* The Package in memory.
CurrentPackage ==
    PackageOf(extensions, functions, schemas, scripts, tables, types, order)

\* The Display text of item.name and the JSON of the item, per collection.
ItemName(c, item) ==
    IF c \in {"functions", "tables", "types"}
    THEN ObjectNameToString(item.name)
    ELSE item.name

ItemJson(c, item) ==
    CASE c = "tables" -> SerTable(item)
      [] c \in {"functions", "types"} -> SerQualified(item)
      [] OTHER -> SerNamed(item)

\* zip_collection!: the directory entry, then one file per item.
zip_collection(pkg, c) ==
    <<ZipEntry(DirectoryName(c), EmptyBody)>>
      \o [i \in 1..Len(pkg[c]) |->
            ZipEntry(FileName(c, ItemName(c, pkg[c][i])),
                     JsonBody(ItemJson(c, pkg[c][i])))]

RECURSIVE ZipCollections(_, _)
ZipCollections(pkg, i) ==
    IF i > Len(CollectionNames) THEN <<>>
    ELSE zip_collection(pkg, CollectionNames[i]) \o ZipCollections(pkg, i + 1)

\* The entries write_to puts in the archive: the six collections, then
\* order.json when order is defined.
WriteTo(pkg) ==
    ZipCollections(pkg, 1)
      \o IF pkg.order.some
         THEN <<ZipEntry(OrderFileName, JsonBody(SerOrder(pkg.order.val)))>>
         ELSE <<>>

\* order.json not recognised.
EntryTargetWithoutOrder(name) ==
    IF \E i \in 1..Len(CollectionNames) :
          starts_with(name, DirectoryName(CollectionNames[i]))
    THEN CollectionNames[
           CHOOSE i \in 1..Len(CollectionNames) :
              starts_with(name, DirectoryName(CollectionNames[i]))]
    ELSE "ignored"

\* The if-chain of from_path on the entry name: the collection the entry is
\* pushed to, "order", or "ignored" when no branch matches.
EntryTarget(name) ==
    IF \E i \in 1..Len(CollectionNames) :
          starts_with(name, DirectoryName(CollectionNames[i]))
    THEN CollectionNames[
           CHOOSE i \in 1..Len(CollectionNames) :
              starts_with(name, DirectoryName(CollectionNames[i]))]
    ELSE IF name = OrderFileName THEN "order"
    ELSE "ignored"

\* No entry skipped for its size.
SkippedNever(entry) == FALSE

\* The test `file.size() == 0` of from_path.
Skipped(entry) == entry.body.kind = "empty"

\* serde_json::from_reader for the target's type.
Deserialize(target, body) ==
    IF body.kind # "json" THEN None
    ELSE CASE target = "tables" -> DeTable(body.doc)
           [] target \in {"functions", "types"} -> DeQualified(body.doc)
           [] target = "order" -> DeOrder(body.doc)
           [] OTHER -> DeNamed(body.doc)

PackageInternalReadError(name) ==
    [ok |-> FALSE, err |-> "PackageInternalReadError", msg |-> name]

PackageReadError == [ok |-> FALSE, err |-> "PackageReadError", msg |-> ""]

EmptyPackage == PackageOf(<<>>, <<>>, <<>>, <<>>, <<>>, <<>>, None)

\* The loop of from_path over the entries, from index i with the Package
\* read so far.
RECURSIVE ReadEntries(_, _, _)
ReadEntries(entries, i, pkg) ==
    IF i > Len(entries) THEN [result |-> Ok, package |-> pkg]
    ELSE LET file == entries[i]
             target == EntryTarget(file.name)
         IN IF Skipped(file) \/ target = "ignored"
            THEN ReadEntries(entries, i + 1, pkg)
            ELSE LET de == Deserialize(target, file.body)
                 IN IF ~de.some
                    THEN [result |-> PackageInternalReadError(file.name),
                          package |-> EmptyPackage]
                    ELSE IF target = "order"
                    THEN ReadEntries(entries, i + 1,
                                     [pkg EXCEPT !.order = Some(de.val)])
                    ELSE ReadEntries(entries, i + 1,
                                     [pkg EXCEPT ![target] =
                                         Append(pkg[target], de.val)])

\* Package::from_path on the file at the path (None: no such file).
FromPath(file) ==
    IF ~file.some
    THEN [result |-> PackageReadError, package |-> EmptyPackage]
    ELSE ReadEntries(file.val, 1, EmptyPackage)

----------------------------------------------------------------------------
\* Package artifact: writing and reading

\* Most tables in a Package that is written to an artifact.
MaxTables == 2

\* Most entries added to an artifact by other tools.
MaxForeignEntries == 2

SeqsUpTo(S, n) == UNION { [1..k -> S] : k \in 0..n }

\* The tables of the Packages written: without constraints, with a Foreign
\* constraint, qualified with a Primary constraint.
ArchiveTableInputs ==
    { t \in TableInputs :
        \/ t.name = ObjectName(None, <<"b">>) /\ ~t.constraints.some
        \/ t.name = ObjectName(None, <<"a">>) /\ t.constraints.some
        \/ t.name = ObjectName(Some(app), <<"b">>) }

\* Entries found in an artifact that write_to did not put there: a
\* zero-size file under tables/, a file outside the known directories, and
\* a file under types/ that is not JSON.
ForeignEntries ==
    { ZipEntry(<<"t", "a", "b", "l", "e", "s", "/", "a", ".", "j", "s", "o", "n">>, EmptyBody),
      ZipEntry(<<"d", "o", "c", "s", "/", "a", ".", "j", "s", "o", "n">>, GarbageBody),
      ZipEntry(<<"t", "y", "p", "e", "s", "/", "t", ".", "j", "s", "o", "n">>, GarbageBody) }

\* A Package ready to be written, and no artifact yet.
ArchiveInit ==
    /\ tables \in SeqsUpTo(ArchiveTableInputs, MaxTables)
    /\ functions \in SeqsUpTo(FunctionInputs, 1)
    /\ schemas \in SeqsUpTo(SchemaInputs, 1)
    /\ extensions \in SeqsUpTo(ExtensionInputs, 1)
    /\ scripts \in SeqsUpTo(ScriptInputs, 1)
    /\ types \in SeqsUpTo(TypeInputs, 1)
    /\ order \in {None, Some(topological_sort(BuildGraph(tables, functions)))}
    /\ project = [default_schema |-> public]
    /\ hist = <<>>
    /\ result = Ok
    /\ archive = None
    /\ loaded = None
    /\ asm = NotStarted
    /\ deploy = NotStarted

\* Package::write_to: File::create fails, or the archive is written.
write_to ==
    /\ ~archive.some
    /\ loaded = None
    /\ \E created \in BOOLEAN :
          IF created
          THEN /\ archive' = Some(WriteTo(CurrentPackage))
               /\ result' = Ok
          ELSE /\ archive' = archive
               /\ result' = GenerationError("Failed to write package")
    /\ UNCHANGED <<extensions, functions, schemas, scripts, tables, types,
                   order, project, hist, loaded, asm, deploy>>

\* The number of entries of the artifact that write_to did not write.
ForeignCount == Len(archive.val) - Len(WriteTo(CurrentPackage))

\* Another tool appends an entry to the artifact.
add_foreign_entry ==
    /\ archive.some
    /\ loaded = None
    /\ ForeignCount < MaxForeignEntries
    /\ \E entry \in ForeignEntries :
          archive' = Some(Append(archive.val, entry))
    /\ UNCHANGED <<extensions, functions, schemas, scripts, tables, types,
                   order, project, hist, result, loaded, asm, deploy>>

\* Package::from_path on the artifact's path.
from_path ==
    /\ loaded = None
    /\ loaded' = Some(FromPath(archive))
    /\ UNCHANGED <<extensions, functions, schemas, scripts, tables, types,
                   order, project, hist, result, archive, asm, deploy>>

ArchiveNext ==
    \/ write_to
    \/ add_foreign_entry
    \/ from_path

ArchiveSpec == ArchiveInit /\ [][ArchiveNext]_vars

----------------------------------------------------------------------------
\* gen.rs: Dacpac::package_project

\* Most directory entries met by the walk of the project directory.
MaxFiles == 3

IOError(file, message) ==
    [kind |-> "IOError", file |-> file, message |-> message]

SyntaxError(file) == [kind |-> "SyntaxError", file |-> file]

ParseError(file) == [kind |-> "ParseError", file |-> file]

DacpacGenerationError(message) ==
    [kind |-> "GenerationError", message |-> message]

\* StdResult<(), Vec<DacpacError>>
RetOk == [ok |-> TRUE, errors |-> <<>>]

RetErr(errors) == [ok |-> FALSE, errors |-> errors]

\* The project file as package_project finds it.
ManifestInputs ==
    {"missing", "unreadable", "malformed", "no_default_schema", "ok"}

\* A directory entry of the walk: its extension, what reading, tokenizing
\* and parsing it give, and the tables of its statements.
WalkEntry(extension, outcome, stmts) ==
    [extension |-> extension, outcome |-> outcome, statements |-> stmts]

FileInputs ==
    { WalkEntry("sql", "ok",
                <<TableDefinition(ObjectName(None, <<"a">>), <<<<"c">>>>,
                                  None)>>),
      WalkEntry("sql", "read_error", <<>>),
      WalkEntry("sql", "lexical_error", <<>>),
      WalkEntry("sql", "parse_error", <<>>),
      WalkEntry("json", "ok", <<>>),
      WalkEntry("", "ok", <<>>) }

\* The path of the project file, and of the i-th entry of the walk.
ProjectPath == "project.json"

EntryPath(i) == <<"entry", i>>

\* The state of a call of package_project before its first statement.
AssembleStart(manifest, files) ==
    [pc |-> "load", manifest |-> manifest, files |-> files, next |-> 1,
     errors |-> <<>>, tables |-> <<>>, normalized |-> FALSE,
     validated |-> FALSE, written |-> FALSE, ret |-> RetOk]

AssembleInit ==
    /\ extensions = <<>> /\ functions = <<>> /\ schemas = <<>>
    /\ scripts = <<>> /\ tables = <<>> /\ types = <<>>
    /\ order = None
    /\ project = [default_schema |-> public]
    /\ hist = <<>>
    /\ result = Ok
    /\ archive = None
    /\ loaded = None
    /\ deploy = NotStarted
    /\ asm \in { AssembleStart(m, fs) :
                   m \in ManifestInputs, fs \in SeqsUpTo(FileInputs, MaxFiles) }

\* Loading the project file: a missing or unreadable file is returned as an
\* IOError; the unwrap of serde_json::from_str panics on a file that is not
\* a ProjectConfig.
AfterLoad(a) ==
    CASE a.manifest = "missing" ->
           [a EXCEPT !.pc = "returned",
                     !.ret = RetErr(<<IOError(ProjectPath,
                                       "Project file does not exist")>>)]
      [] a.manifest = "unreadable" ->
           [a EXCEPT !.pc = "returned",
                     !.ret = RetErr(<<IOError(ProjectPath,
                                       "Failed to read project file")>>)]
      [] a.manifest \in {"malformed", "no_default_schema"} ->
           [a EXCEPT !.pc = "panicked"]
      [] a.manifest = "ok" -> [a EXCEPT !.pc = "walk"]

load_project_file ==
    /\ asm.pc = "load"
    /\ asm' = AfterLoad(asm)
    /\ UNCHANGED <<extensions, functions, schemas, scripts, tables, types,
                   order, project, hist, result, archive, loaded, deploy>>

\* The walk abandoned at the first file in error.
AfterEntryStoppingAtError(a) ==
    LET i == a.next
        file == a.files[i]
    IN IF file.extension # "sql" THEN [a EXCEPT !.next = i + 1]
       ELSE CASE file.outcome = "read_error" ->
                   [a EXCEPT !.pc = "returned",
                             !.ret = RetErr(<<IOError(EntryPath(i), "read")>>)]
              [] file.outcome = "lexical_error" ->
                   [a EXCEPT !.pc = "returned",
                             !.ret = RetErr(<<SyntaxError(EntryPath(i))>>)]
              [] file.outcome = "parse_error" ->
                   [a EXCEPT !.pc = "returned",
                             !.ret = RetErr(<<ParseError(EntryPath(i))>>)]
              [] file.outcome = "ok" ->
                   [a EXCEPT !.next = i + 1,
                             !.tables = a.tables \o file.statements]

\* One iteration of the walk: entries without the extension "sql" are
\* skipped; a read, lexical or parse error is pushed to `errors` and the
\* loop continues; the tables of a parsed file are pushed to the project.
AfterEntry(a) ==
    LET i == a.next
        file == a.files[i]
    IN IF file.extension # "sql" THEN [a EXCEPT !.next = i + 1]
       ELSE CASE file.outcome = "read_error" ->
                   [a EXCEPT !.next = i + 1,
                             !.errors = Append(a.errors,
                                               IOError(EntryPath(i), "read"))]
              [] file.outcome = "lexical_error" ->
                   [a EXCEPT !.next = i + 1,
                             !.errors = Append(a.errors,
                                               SyntaxError(EntryPath(i)))]
              [] file.outcome = "parse_error" ->
                   [a EXCEPT !.next = i + 1,
                             !.errors = Append(a.errors,
                                               ParseError(EntryPath(i)))]
              [] file.outcome = "ok" ->
                   [a EXCEPT !.next = i + 1,
                             !.tables = a.tables \o file.statements]

walk_entry ==
    /\ asm.pc = "walk"
    /\ asm.next <= Len(asm.files)
    /\ asm' = AfterEntry(asm)
    /\ UNCHANGED <<extensions, functions, schemas, scripts, tables, types,
                   order, project, hist, result, archive, loaded, deploy>>

\* Project::set_defaults of gen.rs: the default schema on unqualified table
\* names.
ProjectSetDefaults(ts, default_schema) ==
    [i \in 1..Len(ts) |->
       [ts[i] EXCEPT !.name = DefaultName(ts[i].name, default_schema)]]

\* After the walk: the early exit with the collected errors, else
\* set_defaults, validate and the write of the output file.
AfterWalk(a, created) ==
    IF a.errors # <<>>
    THEN [a EXCEPT !.pc = "returned", !.ret = RetErr(a.errors)]
    ELSE [a EXCEPT !.pc = "returned",
                   !.tables = ProjectSetDefaults(a.tables, public),
                   !.normalized = TRUE,
                   !.validated = TRUE,
                   !.written = created,
                   !.ret = IF created THEN RetOk
                           ELSE RetErr(<<DacpacGenerationError(
                                           "Failed to write DACPAC")>>)]

finish_package ==
    /\ asm.pc = "walk"
    /\ asm.next > Len(asm.files)
    /\ \E created \in BOOLEAN : asm' = AfterWalk(asm, created)
    /\ UNCHANGED <<extensions, functions, schemas, scripts, tables, types,
                   order, project, hist, result, archive, loaded, deploy>>

AssembleNext ==
    \/ load_project_file
    \/ walk_entry
    \/ finish_package

AssembleSpec == AssembleInit /\ [][AssembleNext]_vars

----------------------------------------------------------------------------
\* gen.rs: Dacpac::publish, generate_sql, generate_report

FormatError(file, message) ==
    [kind |-> "FormatError", file |-> file, message |-> message]

InvalidConnectionString(message) ==
    [kind |-> "InvalidConnectionString", message |-> message]

\* StdResult<T, Vec<DacpacError>> of the steps of a command.
StepOk(value) == [ok |-> TRUE, value |-> value, errors |-> <<>>]

StepErr(errors) == [ok |-> FALSE, value |-> <<>>, errors |-> errors]

CommandInputs == {"publish", "generate_sql", "generate_report"}

\* Tables of the declared project and of the live database: one table, and
\* the same table with a further column.
DeployTableInputs ==
    { TableDefinition(ObjectName(Some(app), <<"b">>), <<<<"c">>>>, None),
      TableDefinition(ObjectName(Some(app), <<"b">>), <<<<"c">>, <<"d">>>>,
                      None) }

\* The DACPAC file as load_project finds it.
DacpacInputs ==
    { [status |-> st, tables |-> ts] :
        st \in {"missing", "unreadable", "not_zip", "bad_entry", "ok"},
        ts \in SeqsUpTo(DeployTableInputs, 1) }

\* The publish profile file: its state on disk and, when it is JSON with a
\* version, the value of its key allow_drops ("absent" when not written).
ProfileInputs ==
    { [status |-> st, allow_drops |-> "absent"] :
        st \in {"missing", "unreadable", "malformed"} }
      \cup { [status |-> "ok", allow_drops |-> d] :
               d \in {"absent", "false", "true"} }

TrueText == <<"t", "r", "u", "e">>

\* Connection strings, as the sections between ';' and, in each section,
\* the parts between '='.
ConnectionInputs ==
    { <<<<"host", "h">>, <<"database", "d">>, <<"userid", "u">>>>,
      <<<<"host", "h">>, <<"database", "d">>, <<"userid", "u">>,
        <<"password", "p">>, <<"port", "5">>, <<" ">>>>,
      <<<<"host", "h">>, <<"database", "d">>, <<"userid", "u">>,
        <<"tlsmode", <<"t", "r", "U", "e">>>>>>,
      <<<<"host", "h">>, <<"database", "d">>, <<"userid", "u">>,
        <<"tlsmode", <<"f">>>>>>,
      <<<<"host", "h">>, <<"tlsmode", TrueText>>>>,
      <<<<"host", "h">>, <<"database">>, <<"userid", "u">>>>,
      <<<<"">>>> }

\* The state of a command before its first statement.
DeployStart(command, dacpac, live, profile, connection) ==
    [pc |-> "load_project", command |-> command, dacpac |-> dacpac,
     live |-> live, profile |-> profile, connection |-> connection,
     project |-> None, publish_profile |-> None, connection_string |-> None,
     plan |-> None, output |-> None, steps |-> <<>>, ret |-> RetOk]

DeployInit ==
    /\ extensions = <<>> /\ functions = <<>> /\ schemas = <<>>
    /\ scripts = <<>> /\ tables = <<>> /\ types = <<>>
    /\ order = None
    /\ project = [default_schema |-> public]
    /\ hist = <<>>
    /\ result = Ok
    /\ archive = None
    /\ loaded = None
    /\ asm = NotStarted
    /\ deploy \in { DeployStart(c, d, l, p, s) :
                      c \in CommandInputs, d \in DacpacInputs,
                      l \in SeqsUpTo(DeployTableInputs, 1),
                      p \in ProfileInputs, s \in ConnectionInputs }

\* The try! of a step: its error is returned, else the next step runs.
AfterStep(d, step, outcome, field, next) ==
    IF outcome.ok
    THEN [d EXCEPT !.pc = next, !.steps = Append(d.steps, step),
                   ![field] = Some(outcome.value)]
    ELSE [d EXCEPT !.pc = "returned", !.steps = Append(d.steps, step),
                   !.ret = RetErr(outcome.errors)]

\* Dacpac::load_project; "panic" stands for the unwrap of load_file! on an
\* entry under tables/ that is not a TableDefinition.
LoadProject(dacpac) ==
    CASE dacpac.status = "missing" ->
           StepErr(<<IOError("package.dacpac", "DACPAC file does not exist")>>)
      [] dacpac.status \in {"unreadable", "not_zip"} ->
           StepErr(<<IOError("package.dacpac", "Failed to open DACPAC file")>>)
      [] dacpac.status = "ok" -> StepOk([tables |-> dacpac.tables])

load_project ==
    /\ deploy.pc = "load_project"
    /\ deploy' =
         IF deploy.dacpac.status = "bad_entry"
         THEN [deploy EXCEPT !.pc = "panicked",
                             !.steps = Append(deploy.steps, "load_project")]
         ELSE AfterStep(deploy, "load_project", LoadProject(deploy.dacpac),
                        "project", "load_publish_profile")
    /\ UNCHANGED <<extensions, functions, schemas, scripts, tables, types,
                   order, project, hist, result, archive, loaded, asm>>

\* Dacpac::load_publish_profile: PublishProfile has the field version only,
\* every other key of the file is dropped by the decoder.
LoadPublishProfile(profile) ==
    CASE profile.status = "missing" ->
           StepErr(<<IOError("profile.json", "Publish profile does not exist")>>)
      [] profile.status = "unreadable" ->
           StepErr(<<IOError("profile.json", "Failed to read publish profile")>>)
      [] profile.status = "malformed" ->
           StepErr(<<FormatError("profile.json",
                                 "Publish profile was not well formed")>>)
      [] profile.status = "ok" -> StepOk([version |-> "1.0"])

load_publish_profile ==
    /\ deploy.pc = "load_publish_profile"
    /\ deploy' = AfterStep(deploy, "load_publish_profile",
                           LoadPublishProfile(deploy.profile),
                           "publish_profile", "test_connection")
    /\ UNCHANGED <<extensions, functions, schemas, scripts, tables, types,
                   order, project, hist, result, archive, loaded, asm>>

\* ConnectionString::new
NewConnectionString ==
    [database |-> None, host |-> None, user |-> None, password |-> None,
     tls_mode |-> FALSE]

\* section.trim().len() == 0
IsBlank(section) == Len(section) = 1 /\ section[1] \in {"", " "}

\* The match on parts[0] with the setters of ConnectionString.
SetPart(cs, key, value) ==
    CASE key = "host" -> [cs EXCEPT !.host = Some(value)]
      [] key = "database" -> [cs EXCEPT !.database = Some(value)]
      [] key = "userid" -> [cs EXCEPT !.user = Some(value)]
      [] key = "password" -> [cs EXCEPT !.password = Some(value)]
      [] key = "tlsmode" ->
           [cs EXCEPT !.tls_mode = eq_ignore_ascii_case(value, TrueText)]
      [] OTHER -> cs

\* ConnectionString::validate
ConnectionErrors(cs) ==
    (IF cs.database.some THEN <<>>
     ELSE <<InvalidConnectionString("No database defined")>>)
    \o (IF cs.host.some THEN <<>>
        ELSE <<InvalidConnectionString("No host defined")>>)
    \o (IF cs.user.some THEN <<>>
        ELSE <<InvalidConnectionString("No user defined")>>)
    \o (IF cs.tls_mode
        THEN <<InvalidConnectionString("TLS not supported")>>
        ELSE <<>>)

\* Dacpac::test_connection from the i-th section on.
RECURSIVE TestConnectionFrom(_, _, _)
TestConnectionFrom(cs, sections, i) ==
    IF i > Len(sections)
    THEN IF ConnectionErrors(cs) = <<>> THEN StepOk(cs)
         ELSE StepErr(ConnectionErrors(cs))
    ELSE IF IsBlank(sections[i]) THEN TestConnectionFrom(cs, sections, i + 1)
    ELSE IF Len(sections[i]) # 2
         THEN StepErr(<<InvalidConnectionString(
                          "Connection string was not well formed")>>)
         ELSE TestConnectionFrom(SetPart(cs, sections[i][1], sections[i][2]),
                                 sections, i + 1)

test_connection ==
    /\ deploy.pc = "test_connection"
    /\ deploy' = AfterStep(deploy, "test_connection",
                           TestConnectionFrom(NewConnectionString,
                                              deploy.connection, 1),
                           "connection_string", "generate_changeset")
    /\ UNCHANGED <<extensions, functions, schemas, scripts, tables, types,
                   order, project, hist, result, archive, loaded, asm>>

\* Project::generate_changeset
ChangesetOf(declared, connection_string, publish_profile) ==
    StepOk(<<"AddColumn">>)

generate_changeset ==
    /\ deploy.pc = "generate_changeset"
    /\ deploy' = AfterStep(deploy, "generate_changeset",
                           ChangesetOf(deploy.project.val,
                                       deploy.connection_string.val,
                                       deploy.publish_profile.val),
                           "plan", "output")
    /\ UNCHANGED <<extensions, functions, schemas, scripts, tables, types,
                   order, project, hist, result, archive, loaded, asm>>

\* ChangeInstruction::to_sql
to_sql(change) == "CREATE"

\* What a command writes for a change set: nothing for publish, the SQL of
\* each change for generate_sql, the JSON array of the changes for
\* generate_report.
OutputText(command, changes) ==
    CASE command = "generate_sql" ->
           [i \in 1..Len(changes) |-> to_sql(changes[i])]
      [] command = "generate_report" ->
           <<JArray([i \in 1..Len(changes) |-> JString(changes[i])])>>
      [] command = "publish" -> <<>>

\* The end of a command: publish returns Ok; generate_sql and
\* generate_report create the output file and write to it, and either can
\* fail.
AfterOutput(d, created, wrote) ==
    IF d.command = "publish"
    THEN [d EXCEPT !.pc = "returned", !.steps = Append(d.steps, "output")]
    ELSE IF ~created
    THEN [d EXCEPT !.pc = "returned", !.steps = Append(d.steps, "output"),
                   !.ret = RetErr(<<DacpacGenerationError(
                                      "Failed to generate output")>>)]
    ELSE IF ~wrote
    THEN [d EXCEPT !.pc = "returned", !.steps = Append(d.steps, "output"),
                   !.output = Some(<<>>),
                   !.ret = RetErr(<<DacpacGenerationError(
                                      "Failed to generate output")>>)]
    ELSE [d EXCEPT !.pc = "returned", !.steps = Append(d.steps, "output"),
                   !.output = Some(OutputText(d.command, d.plan.val))]

write_output ==
    /\ deploy.pc = "output"
    /\ \E created \in BOOLEAN, wrote \in BOOLEAN :
          deploy' = AfterOutput(deploy, created, wrote)
    /\ UNCHANGED <<extensions, functions, schemas, scripts, tables, types,
                   order, project, hist, result, archive, loaded, asm>>

DeployNext ==
    \/ load_project
    \/ load_publish_profile
    \/ test_connection
    \/ generate_changeset
    \/ write_output

DeploySpec == DeployInit /\ [][DeployNext]_vars

----------------------------------------------------------------------------
\* Properties

\* The method called last ("new" right after construction).
LastOp == IF hist = <<>> THEN "new" ELSE hist[Len(hist)]

\* generate_dependency_graph was called last and returned Ok.
GeneratedOk == LastOp = "generate_dependency_graph" /\ result.ok

\* The graph of the Package's current tables and functions.
CurrentGraph == BuildGraph(tables, functions)

\* Position of a node in the order, 0 when absent.
Pos(n) == IF order.some THEN IndexIn(n, order.val, 1) ELSE 0

TableNode(t) == Node("Table", ObjectNameToString(t.name))

ForeignsOf(t) ==
    IF t.constraints.some
    THEN { c \in SeqToSet(t.constraints.val) : c.kind = "Foreign" }
    ELSE {}

\* Table t has a Foreign constraint whose ref_table is the name n.
References(t, n) == \E c \in ForeignsOf(t) : c.ref_table = n

\* Every table name and every Foreign.ref_table carries a schema.
TablesNormalized ==
    \A t \in SeqToSet(tables) :
        /\ t.name.schema.some
        /\ \A c \in ForeignsOf(t) : c.ref_table.schema.some

\* C1: in a normalized Package on which generate_dependency_graph
\* succeeded, for tables T1 and T2 where T1 has a Foreign constraint whose
\* ref_table is T2, Table(T2) is strictly before Table(T1) in order,
\* whatever the order in which they were pushed.
C1_ReferencedTableBeforeReferencing ==
    (GeneratedOk /\ TablesNormalized) =>
        \A t1 \in SeqToSet(tables) : \A t2 \in SeqToSet(tables) :
            (t1.name # t2.name /\ References(t1, t2.name)) =>
                /\ Pos(TableNode(t1)) > 0
                /\ Pos(TableNode(t2)) > 0
                /\ Pos(TableNode(t2)) < Pos(TableNode(t1))

\* Tables A and B are both in the Package, A references B and B references A.
MutualForeignKeys ==
    \E a \in SeqToSet(tables) : \E b \in SeqToSet(tables) :
        /\ a.name # b.name
        /\ References(a, b.name)
        /\ References(b, a.name)

\* C2: on a Package with two tables that reference each other by foreign
\* key, generate_dependency_graph fails with
\* GenerationError("Circular reference detected") and produces no order.
C2_MutualForeignKeysRejected ==
    (LastOp = "generate_dependency_graph" /\ MutualForeignKeys) =>
        /\ result = GenerationError("Circular reference detected")
        /\ ~order.some

\* The nodes reachable from the set S along edges, S included.
RECURSIVE ReachableFrom(_, _)
ReachableFrom(g, S) ==
    LET T == S \cup UNION { Successors(g, n) : n \in S }
    IN IF T = S THEN S ELSE ReachableFrom(g, T)

\* Some node reaches itself along one or more edges.
HasCycle(g) ==
    \E n \in g.nodes \cup { e.from : e \in g.edges } :
        n \in ReachableFrom(g, Successors(g, n))

EveryDestinationAdded(g) == \A e \in g.edges : e.to \in g.nodes

\* C3: generate_dependency_graph returns Ok exactly when the graph of the
\* Package's tables and functions has no cycle and every edge destination was
\* added as a node; otherwise it returns a GenerationError.
C3_OkIffAcyclicAndResolved ==
    LastOp = "generate_dependency_graph" =>
        /\ result.ok <=>
              (~HasCycle(CurrentGraph) /\ EveryDestinationAdded(CurrentGraph))
        /\ ~result.ok => result.err = "GenerationError"

\* generate_dependency_graph rejected a graph with an unresolved edge.
C3_Witness ==
    /\ LastOp = "generate_dependency_graph"
    /\ ~result.ok
    /\ ~EveryDestinationAdded(CurrentGraph)
    /\ result.msg = "Unresolved dependencies detected"

\* C4: after a successful generate_dependency_graph, for every edge u -> v
\* of the graph (u depends on v), v is before u in order.
C4_DependenciesFirst ==
    GeneratedOk =>
        \A e \in CurrentGraph.edges :
            /\ Pos(e.to) > 0
            /\ Pos(e.from) > 0
            /\ Pos(e.to) < Pos(e.from)

\* A successful generate_dependency_graph on a graph with a foreign-key edge
\* into another table.
C4_Witness ==
    /\ GeneratedOk
    /\ \E e \in CurrentGraph.edges : e.weight = WeightForeignRef

\* The sequence s lists every element of the set S exactly once.
ListsExactlyOnce(s, S) ==
    /\ SeqToSet(s) = S
    /\ \A i \in 1..Len(s) : \A j \in 1..Len(s) : s[i] = s[j] => i = j

\* C5 as stated: whenever order is present it lists every node of the graph
\* of the Package's current entities exactly once, in every state reachable
\* by push_*, set_defaults and generate_dependency_graph.
C5_OrderCoversCurrentGraph ==
    order.some => ListsExactlyOnce(order.val, CurrentGraph.nodes)

\* C5 amended: a successful generate_dependency_graph leaves an order that
\* lists every node of the graph of the Package's entities exactly once;
\* every other call (push_*, set_defaults, validate, a failing
\* generate_dependency_graph) leaves order as it was.
C5_OrderCompleteWhenGeneratedAndKeptOtherwise ==
    [][ IF hist'[Len(hist')] = "generate_dependency_graph" /\ result'.ok
        THEN /\ order'.some
             /\ ListsExactlyOnce(order'.val,
                                 BuildGraph(tables', functions').nodes)
        ELSE order' = order ]_vars

\* An order produced by generate_dependency_graph, then a table pushed: the
\* order is kept and no longer lists the graph's nodes.
C5_Witness ==
    /\ order.some
    /\ order.val # <<>>
    /\ LastOp = "push_table"
    /\ ~ListsExactlyOnce(order.val, CurrentGraph.nodes)

\* The qualified names of the Package: of every table, function and type,
\* and every Foreign.ref_table.
QualifiedNames ==
    { t.name : t \in SeqToSet(tables) }
      \cup { f.name : f \in SeqToSet(functions) }
      \cup { d.name : d \in SeqToSet(types) }
      \cup UNION { { c.ref_table : c \in ForeignsOf(t) } :
                     t \in SeqToSet(tables) }

\* C6: after set_defaults every qualified name of the Package (tables,
\* functions, types, Foreign.ref_table) has a non-empty schema.
C6_EveryNameQualified ==
    LastOp = "set_defaults" =>
        \A n \in QualifiedNames : n.schema.some /\ n.schema.val # <<>>

\* ASCII lower case of a string.
ToAsciiLower(s) == [i \in 1..Len(s) |-> AsciiLowerChar(s[i])]

\* Some schema is named "public" in some letter case.
PublicPresent(ss) == \E i \in 1..Len(ss) : ToAsciiLower(ss[i].name) = public

\* C7: after set_defaults a schema named "public" (ignoring ASCII case) is
\* present; "public" is appended exactly when none was present before, and
\* the schemas are unchanged when one was present in any letter case.
C7_PublicSchemaEnsured ==
    [][ hist'[Len(hist')] = "set_defaults" =>
          /\ PublicPresent(schemas')
          /\ ~PublicPresent(schemas) =>
                schemas' = Append(schemas, SchemaDefinition(public))
          /\ PublicPresent(schemas) => schemas' = schemas ]_vars

\* set_defaults ran on a Package whose only schema is "PUBLIC": nothing was
\* appended.
C7_Witness ==
    /\ LastOp = "set_defaults"
    /\ schemas = <<SchemaDefinition(PUBLIC)>>

\* The number of tables of the Package named n.
TablesNamed(n) == Cardinality({ i \in 1..Len(tables) : tables[i].name = n })

\* C8: when generate_dependency_graph succeeds, every Foreign constraint's
\* ref_table names exactly one table of the Package (a Package where it
\* names none, or several, is rejected).
C8_RefTableNamesOneTable ==
    GeneratedOk =>
        \A t \in SeqToSet(tables) : \A c \in ForeignsOf(t) :
            TablesNamed(c.ref_table) = 1

\* No two elements of the sequence have the same name.
NamesUnique(s) ==
    \A i \in 1..Len(s) : \A j \in 1..Len(s) : s[i].name = s[j].name => i = j

\* The Package went through set_defaults and then validate, which accepted
\* it.
Validated ==
    /\ Len(hist) >= 2
    /\ hist[Len(hist) - 1] = "set_defaults"
    /\ LastOp = "validate"
    /\ result.ok

\* C9: in a Package that passed push_*, set_defaults and validate, no two
\* entities of the same kind have the same qualified name (schema, local).
C9_NamesUniqueWithinKind ==
    Validated =>
        /\ NamesUnique(tables)
        /\ NamesUnique(functions)
        /\ NamesUnique(types)

\* C10: on a new Package with nothing pushed, set_defaults then
\* generate_dependency_graph leave the schema "public" as the only entity,
\* the graph is valid and order is present and empty.
C10_EmptyProject ==
    hist = <<"set_defaults", "generate_dependency_graph">> =>
        /\ schemas = <<SchemaDefinition(public)>>
        /\ extensions = <<>> /\ functions = <<>> /\ scripts = <<>>
        /\ tables = <<>> /\ types = <<>>
        /\ ValidateGraph(CurrentGraph) = "Valid"
        /\ result = Ok
        /\ order = Some(<<>>)

\* set_defaults then generate_dependency_graph were called on a new Package.
C10_Witness == hist = <<"set_defaults", "generate_dependency_graph">>

\* The Package holds one table, qualified by a schema and without
\* constraints, and no function.
SingleUnconstrainedTable ==
    /\ Len(tables) = 1
    /\ functions = <<>>
    /\ tables[1].name.schema.some
    /\ ~tables[1].constraints.some \/ tables[1].constraints.val = <<>>

\* C11: for a Package holding a single table S.T with columns c1..cn and no
\* constraints, the order produced by generate_dependency_graph is exactly
\* Schema(S), Table(S.T), Column(S.T.c1), ..., Column(S.T.cn).
C11_SingleTableOrder ==
    (GeneratedOk /\ SingleUnconstrainedTable) =>
        LET t == tables[1]
            full == t.name.schema.val \o <<".">> \o t.name.name
        IN order =
             Some(<<Node("Schema", t.name.schema.val), Node("Table", full)>>
                  \o [i \in 1..Len(t.columns) |->
                        Node("Column", full \o <<".">> \o t.columns[i])])

ConstraintsOf(t) ==
    IF t.constraints.some THEN SeqToSet(t.constraints.val) ELSE {}

\* C18: the graph built by generate_dependency_graph has, for every column,
\* an edge of weight 1.0 from the column to its table; for every Primary and
\* Foreign constraint an edge of weight 1.0 from the constraint to each of
\* its local columns; and for every Foreign constraint an edge of weight 1.1
\* from the constraint to each referenced column Column(ref_table.col).
C18_EdgesAndWeights ==
    LastOp = "generate_dependency_graph" =>
        \A t \in SeqToSet(tables) :
            LET full == ObjectNameToString(t.name)
                column(tab, col) == Node("Column", tab \o <<".">> \o col)
            IN /\ \A col \in SeqToSet(t.columns) :
                     Edge(column(full, col), Node("Table", full), 10)
                         \in CurrentGraph.edges
               /\ \A c \in ConstraintsOf(t) :
                     LET node == Node("Constraint", full \o <<".">> \o c.name)
                     IN /\ \A col \in SeqToSet(c.columns) :
                              Edge(node, column(full, col), 10)
                                  \in CurrentGraph.edges
                        /\ c.kind = "Foreign" =>
                              \A col \in SeqToSet(c.ref_columns) :
                                  Edge(node,
                                       column(ObjectNameToString(c.ref_table),
                                              col), 11)
                                      \in CurrentGraph.edges

\* generate_dependency_graph ran on a Package with a Foreign and a Primary
\* constraint.
C18_Witness ==
    /\ LastOp = "generate_dependency_graph"
    /\ \E t \in SeqToSet(tables) : \E c \in ConstraintsOf(t) :
          c.kind = "Foreign" /\ c.ref_columns # <<>>
    /\ \E t \in SeqToSet(tables) : \E c \in ConstraintsOf(t) :
          c.kind = "Primary"

\* C19: a failing generate_dependency_graph leaves the Package unchanged:
\* order keeps its value and no collection is modified.
C19_FailedGenerateChangesNothing ==
    [][ (hist'[Len(hist')] = "generate_dependency_graph" /\ ~result'.ok) =>
          /\ order' = order
          /\ extensions' = extensions /\ functions' = functions
          /\ schemas' = schemas /\ scripts' = scripts
          /\ tables' = tables /\ types' = types ]_vars

\* generate_dependency_graph failed on a Package that already had an order.
C19_Witness ==
    /\ LastOp = "generate_dependency_graph"
    /\ ~result.ok
    /\ order.some

\* C20: a second set_defaults right after the first changes nothing (no
\* second "public" schema); any set_defaults keeps the schema of a table
\* name or Foreign.ref_table that has one, and leaves columns, functions,
\* types, scripts, extensions and order unchanged.
C20_SetDefaultsIdempotent ==
    [][ hist'[Len(hist')] = "set_defaults" =>
          /\ (hist # <<>> /\ hist[Len(hist)] = "set_defaults") =>
                /\ schemas' = schemas
                /\ tables' = tables
          /\ Len(tables') = Len(tables)
          /\ \A i \in 1..Len(tables) :
                /\ tables[i].name.schema.some =>
                      tables'[i].name = tables[i].name
                /\ tables'[i].name.name = tables[i].name.name
                /\ tables'[i].columns = tables[i].columns
                /\ tables'[i].constraints.some = tables[i].constraints.some
                /\ tables[i].constraints.some =>
                      /\ Len(tables'[i].constraints.val)
                            = Len(tables[i].constraints.val)
                      /\ \A j \in 1..Len(tables[i].constraints.val) :
                            LET c == tables[i].constraints.val[j]
                                d == tables'[i].constraints.val[j]
                            IN IF c.kind = "Foreign" /\ ~c.ref_table.schema.some
                               THEN d = [c EXCEPT !.ref_table.schema =
                                           Some(project.default_schema)]
                               ELSE d = c
          /\ functions' = functions /\ types' = types
          /\ scripts' = scripts /\ extensions' = extensions
          /\ order' = order ]_vars

\* set_defaults ran twice in a row on a Package with a table whose explicit
\* schema is not the default one.
C20_Witness ==
    /\ Len(hist) >= 3
    /\ hist[Len(hist)] = "set_defaults"
    /\ hist[Len(hist) - 1] = "set_defaults"
    /\ \E t \in SeqToSet(tables) :
          t.name.schema.some /\ t.name.schema.val # project.default_schema

\* The sequences s and t have the same members, each as many times.
SameMembers(s, t) ==
    /\ Len(s) = Len(t)
    /\ \A x \in SeqToSet(s) \cup SeqToSet(t) :
          Cardinality({ i \in 1..Len(s) : s[i] = x })
              = Cardinality({ i \in 1..Len(t) : t[i] = x })

\* C12: reading back with from_path the artifact written by write_to gives
\* a Package with the same members in each of the six collections and the
\* same order, absent when the written order was absent.
C12_RoundTrip ==
    (loaded.some /\ archive = Some(WriteTo(CurrentPackage))) =>
        /\ loaded.val.result = Ok
        /\ SameMembers(loaded.val.package.extensions, extensions)
        /\ SameMembers(loaded.val.package.functions, functions)
        /\ SameMembers(loaded.val.package.schemas, schemas)
        /\ SameMembers(loaded.val.package.scripts, scripts)
        /\ SameMembers(loaded.val.package.tables, tables)
        /\ SameMembers(loaded.val.package.types, types)
        /\ loaded.val.package.order = order

\* A Package with two tables of the same name, a function and an order was
\* written and read back.
C12_Witness ==
    /\ loaded.some
    /\ archive = Some(WriteTo(CurrentPackage))
    /\ order.some
    /\ Len(tables) = 2
    /\ tables[1].name = tables[2].name
    /\ functions # <<>>

\* The entry has size zero, or its name is neither under one of the six
\* known directories nor "order.json".
Disregarded(entry) ==
    \/ entry.body.kind = "empty"
    \/ /\ \A i \in 1..Len(CollectionNames) :
             ~starts_with(entry.name, DirectoryName(CollectionNames[i]))
       /\ entry.name # OrderFileName

Regarded(entry) == ~Disregarded(entry)

\* C13: zero-size entries and entries with an unknown name contribute
\* nothing to the Package read by from_path and cause no error: the outcome
\* is the one of reading the archive without them.
C13_IgnoredEntries ==
    (loaded.some /\ archive.some) =>
        loaded.val = FromPath(Some(SelectSeq(archive.val, Regarded)))

\* An artifact holding a zero-size file under tables/ and a file outside
\* the known directories was read without error.
C13_Witness ==
    /\ loaded.some
    /\ loaded.val.result = Ok
    /\ archive.some
    /\ \E i \in 1..Len(archive.val) :
          /\ archive.val[i].body.kind = "empty"
          /\ archive.val[i].name = <<"t", "a", "b", "l", "e", "s", "/", "a", ".", "j", "s", "o", "n">>
    /\ \E i \in 1..Len(archive.val) :
          /\ archive.val[i].body.kind = "garbage"
          /\ archive.val[i].name = <<"d", "o", "c", "s", "/", "a", ".", "j", "s", "o", "n">>

\* The error package_project records for the i-th entry of the walk.
ExpectedError(i) ==
    LET file == asm.files[i]
    IN CASE file.outcome = "read_error" -> IOError(EntryPath(i), "read")
         [] file.outcome = "lexical_error" -> SyntaxError(EntryPath(i))
         [] file.outcome = "parse_error" -> ParseError(EntryPath(i))

\* The SQL files of the walk that fail to read, tokenize or parse, in walk
\* order.
RECURSIVE FailingFrom(_)
FailingFrom(i) ==
    IF i > Len(asm.files) THEN <<>>
    ELSE IF asm.files[i].extension = "sql" /\ asm.files[i].outcome # "ok"
         THEN <<i>> \o FailingFrom(i + 1)
         ELSE FailingFrom(i + 1)

C17_ManifestErrorReturned ==
    (asm.pc \notin {"idle", "load"}
       /\ asm.manifest \in {"missing", "malformed", "no_default_schema"}) =>
        /\ asm.pc = "returned"
        /\ ~asm.ret.ok
        /\ Len(asm.ret.errors) = 1
        /\ asm.ret.errors[1].file = ProjectPath
        /\ asm.tables = <<>>
        /\ ~asm.written

\* The change set of the command has been generated.
Planned == deploy.pc # "idle" /\ deploy.plan.some

\* The live database holds a table or a column that the declared project
\* does not have, so that a diff would contain a Drop instruction.
WouldDrop ==
    \E i \in 1..Len(deploy.live) :
       \/ \A j \in 1..Len(deploy.project.val.tables) :
             deploy.project.val.tables[j].name # deploy.live[i].name
       \/ \E j \in 1..Len(deploy.project.val.tables) :
             /\ deploy.project.val.tables[j].name = deploy.live[i].name
             /\ \E k \in 1..Len(deploy.live[i].columns) :
                   \A m \in 1..Len(deploy.project.val.tables[j].columns) :
                      deploy.project.val.tables[j].columns[m]
                        # deploy.live[i].columns[k]

\* C15: planning a declared project against a live database equal to it
\* yields an empty list of change instructions, for every profile.
C15_PlanAgainstSelfEmpty ==
    (Planned /\ deploy.live = deploy.project.val.tables) =>
        deploy.plan.val = <<>>

\* C16: with allow_drops false or not given, when the live database holds
\* something the declared project lacks, the planner returns a
\* GenerationError and no change instructions.
C16_DropsRefused ==
    (deploy.pc \in {"output", "returned"}
       /\ deploy.steps # <<>>
       /\ "generate_changeset" \in SeqToSet(deploy.steps)
       /\ deploy.profile.allow_drops \in {"absent", "false"}
       /\ WouldDrop) =>
        /\ ~deploy.plan.some
        /\ deploy.pc = "returned"
        /\ ~deploy.ret.ok
        /\ deploy.ret.errors[1].kind = "GenerationError"
        /\ deploy.output = None

\* The steps of a command, in the order of its statements.
CommandSteps ==
    <<"load_project", "load_publish_profile", "test_connection",
      "generate_changeset", "output">>

\* The steps run so far are the first steps of the command, in order, and
\* the change set and the output file exist only after the three loading
\* steps have succeeded.
StepsInOrder ==
    /\ Len(deploy.steps) <= Len(CommandSteps)
    /\ deploy.steps = SubSeq(CommandSteps, 1, Len(deploy.steps))
    /\ deploy.plan.some =>
          /\ deploy.project.some
          /\ deploy.publish_profile.some
          /\ deploy.connection_string.some
          /\ SubSeq(deploy.steps, 1, 3) = SubSeq(CommandSteps, 1, 3)
    /\ deploy.output.some => deploy.plan.some

\* The outcome of the last step run, computed from the command's arguments.
LastStepOutcome ==
    CASE Len(deploy.steps) = 1 -> LoadProject(deploy.dacpac)
      [] Len(deploy.steps) = 2 -> LoadPublishProfile(deploy.profile)
      [] Len(deploy.steps) = 3 ->
           TestConnectionFrom(NewConnectionString, deploy.connection, 1)

\* A command that stopped before generating the change set returned the
\* error of the step it stopped at.
FailureReturned ==
    (deploy.pc \notin {"idle", "load_project"} /\ Len(deploy.steps) \in 1..3
       /\ deploy.pc # CommandSteps[Len(deploy.steps) + 1]) =>
        /\ deploy.pc = "returned"
        /\ deploy.ret = RetErr(LastStepOutcome.errors)
        /\ ~deploy.plan.some
        /\ ~deploy.output.some

\* C21: in publish, generate_sql and generate_report the steps run in the
\* order load package, load publish profile, validate connection string,
\* generate change set; the first step that fails returns its error and no
\* later step runs, so the change set and the output file exist only after
\* the three preceding steps have succeeded.
C21_StepsShortCircuit == StepsInOrder /\ FailureReturned

====
